---- MODULE Spec2Model ----
(***************************************************************************)
(* Verification model of the history store of datavis-pro                  *)
(* (src-tauri/src/data/store.rs) and of the Tauri command handlers that    *)
(* share it behind Arc<Mutex<DataStore>> (src-tauri/src/commands/*.rs).    *)
(*                                                                         *)
(* Spec         the public API of one DataStore, called sequentially by    *)
(*              one owner, for every max_history with_max_history accepts. *)
(* HandlerSpec  concurrent command handlers on the store lib.rs creates    *)
(*              with DataStore::new(), serialised by the std Mutex.        *)
(***************************************************************************)
EXTENDS Integers, Sequences, FiniteSets, TLC

\* ------------------------------------------------------------------------
\* Bounds of the model
\* ------------------------------------------------------------------------
\* largest max_history a store of Spec is created with
MaxDepth == 3
\* number of push_operation calls / handler pushes explored
MaxPushes == 5
\* entry identifiers are drawn from 1..NumIds (they stand for id strings)
NumIds == 2
\* number of handler tasks that run concurrently in HandlerSpec
NumProcs == 2
\* number of commands the frontend invokes in HandlerSpec
MaxCalls == 3
\* largest keep_count passed to trim_history
MaxKeep == 2
\* width of usize in the model; wrap-around is the same at 32 and 64 bits
UsizeBits == 12
\* a wrapped cursor is followed this far from 0 and from usize::MAX
IdxCap == 2

\* ------------------------------------------------------------------------
\* State
\* ------------------------------------------------------------------------
VARIABLES
    history,          \* DataStore.history: Seq of HistoryEntry
    current_index,    \* DataStore.current_index: Option<usize>
    max_history,      \* DataStore.max_history
    overflow_checks,  \* build profile: TRUE = debug (overflow panics)
    next_df,          \* serial of the next DataFrame value that is created
    call,             \* Spec: the owner's last call: op, arg and return value
    pre,              \* Spec: history and current_index when that call started
    lock_holder,      \* Mutex<DataStore>: the handler holding the guard, 0 = free
    poisoned,         \* Mutex<DataStore>: the poison flag
    pc,               \* per handler task: where its command stands
    cmd,              \* per handler task: the command it runs
    args,             \* per handler task: the argument of the command
    local,            \* per handler task: the DataFrame it cloned (current_df)
    ret,              \* per handler task: what its last command returned
    invoked           \* number of commands the frontend has invoked

store_vars == <<history, current_index, max_history, overflow_checks, next_df, call, pre>>
handler_vars == <<lock_holder, poisoned, pc, cmd, args, local, ret, invoked>>
vars == <<history, current_index, max_history, overflow_checks, next_df, call, pre,
          lock_holder, poisoned, pc, cmd, args, local, ret, invoked>>

\* Option<usize>: None is the empty sequence, Some(i) the one-element one
None == <<>>
Some(i) == <<i>>
IsSome(o) == Len(o) = 1
Unwrap(o) == o[1]

\* usize arithmetic of a release build
UsizeMod == 2 ^ UsizeBits
UsizeMax == UsizeMod - 1
WrappingSub(a, b) == (a - b + UsizeMod) % UsizeMod
WrappingAdd(a, b) == (a + b) % UsizeMod

\* DataAnalystError::InvalidOperation(msg), by message; panic = unwinding
Ok == "Ok"
Panic == "panic"
ErrNoData == "InvalidOperation: no data"
ErrAtEarliest == "InvalidOperation: already at earliest state, cannot undo"
ErrAtLatest == "InvalidOperation: already at latest state, cannot redo"
ErrEntryNotFound == "InvalidOperation: history entry not found"
ErrNoHistory == "InvalidOperation: no history"

\* OperationType, by variant
OperationTypes == {"Import", "DropNulls"}

\* a DataFrame value: the serial-th value computed, from the value parent
\* (0: loaded from a file or supplied by the caller)
DataFrame(serial, parent) == [serial |-> serial, parent |-> parent]

\* DatasetInfo of a DataFrame: built from the id and the frame
\* (create_dataset_info, operations.rs:47-72)
DatasetInfo(id, dataframe) == [id |-> id, rows |-> dataframe.serial]

\* HistoryEntry: id, operation, the DataFrame snapshot it owns, and the
\* metadata, timestamp and description its constructor derives
\* (create_history_entry, operations.rs:23-44)
HistoryEntry(id, operation, dataframe) ==
    [id |-> id, operation |-> operation, dataframe |-> dataframe,
     metadata |-> DatasetInfo(id, dataframe),
     timestamp |-> dataframe.serial,
     description |-> operation]

\* Vec::truncate(n): keeps the first n elements, no-op when n >= len
Truncate(v, n) == IF n >= Len(v) THEN v ELSE SubSeq(v, 1, n)

\* Vec::drain(0..n): removes the first n elements
DrainFront(v, n) == SubSeq(v, n + 1, Len(v))

\* the outcome of a &mut self method: the fields afterwards and the return
Outcome(h, ci, r) == [history |-> h, current_index |-> ci, ret |-> r]

\* ------------------------------------------------------------------------
\* DataStore methods (store.rs), as functions of the fields
\* ------------------------------------------------------------------------
\* push_operation whose overflow test is off by one (>= written as > + 1)
push_operation_LateEvict(h, ci, mh, oc, entry) ==
    LET h1 == IF IsSome(ci) THEN Truncate(h, WrappingAdd(Unwrap(ci), 1)) ELSE <<>>
        h2 == Append(h1, entry)
    IN  IF Len(h2) > mh + 1
        THEN Outcome(Tail(h2), Some(Len(h2) - 2), Ok)
        ELSE Outcome(h2, Some(Len(h2) - 1), Ok)

\* push_operation that appends without discarding the redo entries
push_operation_NoTruncate(h, ci, mh, oc, entry) ==
    LET h2 == Append(h, entry)
    IN  IF Len(h2) > mh
        THEN Outcome(Tail(h2), Some(WrappingSub(Len(h2) - 1, 1)), Ok)
        ELSE Outcome(h2, Some(Len(h2) - 1), Ok)

\* push_operation that enforces the limit with truncate(max_history), which
\* drops the entry just pushed instead of the oldest one
push_operation_TruncateOverflow(h, ci, mh, oc, entry) ==
    LET h1 == IF IsSome(ci) THEN Truncate(h, WrappingAdd(Unwrap(ci), 1)) ELSE <<>>
        h2 == Append(h1, entry)
    IN  IF Len(h2) > mh
        THEN Outcome(Truncate(h2, mh), Some(WrappingSub(mh, 1)), Ok)
        ELSE Outcome(h2, Some(Len(h2) - 1), Ok)

\* push_operation that computes the cursor before history.remove(0)
push_operation_StaleCursor(h, ci, mh, oc, entry) ==
    LET h1 == IF IsSome(ci) THEN Truncate(h, WrappingAdd(Unwrap(ci), 1)) ELSE <<>>
        h2 == Append(h1, entry)
    IN  IF Len(h2) > mh
        THEN Outcome(Tail(h2), Some(Len(h2) - 1), Ok)
        ELSE Outcome(h2, Some(Len(h2) - 1), Ok)

\* push_operation that inserts the entry at the front (insert(0, entry))
push_operation_Prepend(h, ci, mh, oc, entry) ==
    LET h1 == IF IsSome(ci) THEN Truncate(h, WrappingAdd(Unwrap(ci), 1)) ELSE <<>>
        h2 == <<entry>> \o h1
    IN  IF Len(h2) > mh
        THEN Outcome(Tail(h2), Some(WrappingSub(Len(h2) - 1, 1)), Ok)
        ELSE Outcome(h2, Some(Len(h2) - 1), Ok)

\* push_operation that evicts with swap_remove(0), which moves the last
\* entry into the place of the oldest
push_operation_SwapRemove(h, ci, mh, oc, entry) ==
    LET h1 == IF IsSome(ci) THEN Truncate(h, WrappingAdd(Unwrap(ci), 1)) ELSE <<>>
        h2 == Append(h1, entry)
    IN  IF Len(h2) > mh
        THEN LET h3 == IF Len(h2) = 1 THEN <<>>
                       ELSE <<entry>> \o SubSeq(h2, 2, Len(h2) - 1)
             IN  Outcome(h3, Some(WrappingSub(Len(h3), 1)), Ok)
        ELSE Outcome(h2, Some(Len(h2) - 1), Ok)

\* push_operation, store.rs:86-108
push_operation(h, ci, mh, oc, entry) ==
    IF IsSome(ci) /\ Unwrap(ci) = UsizeMax /\ oc
    THEN Outcome(h, ci, Panic)                 \* index + 1 overflows
    ELSE
      LET h1 == IF IsSome(ci)
                THEN Truncate(h, WrappingAdd(Unwrap(ci), 1))
                ELSE <<>>
          h2 == Append(h1, entry)
      IN  IF Len(h2) > mh
          THEN LET h3 == Tail(h2)              \* history.remove(0)
               IN  IF Len(h3) = 0 /\ oc
                   THEN Outcome(h3, ci, Panic) \* history.len() - 1 underflows
                   ELSE Outcome(h3, Some(WrappingSub(Len(h3), 1)), Ok)
          ELSE Outcome(h2, Some(Len(h2) - 1), Ok)

\* undo that clamps at the earliest entry instead of failing
undo_Clamped(h, ci) ==
    IF IsSome(ci)
    THEN Outcome(h, Some(IF Unwrap(ci) > 0 THEN Unwrap(ci) - 1 ELSE 0), Ok)
    ELSE Outcome(h, ci, ErrNoData)

\* undo that pops the undone entry off the history
undo_PopsEntry(h, ci) ==
    IF IsSome(ci) /\ Unwrap(ci) > 0
    THEN Outcome(Truncate(h, Unwrap(ci)), Some(Unwrap(ci) - 1), Ok)
    ELSE IF IsSome(ci)
         THEN Outcome(h, ci, ErrAtEarliest)
         ELSE Outcome(h, ci, ErrNoData)

\* undo, store.rs:150-168
undo(h, ci) ==
    IF IsSome(ci) /\ Unwrap(ci) > 0
    THEN Outcome(h, Some(Unwrap(ci) - 1), Ok)
    ELSE IF IsSome(ci)
         THEN Outcome(h, ci, ErrAtEarliest)
         ELSE Outcome(h, ci, ErrNoData)

\* redo that moves to the latest entry instead of one step forward
redo_ToLatest(h, ci, oc) ==
    IF IsSome(ci)
    THEN IF Len(h) >= 1 /\ Unwrap(ci) < Len(h) - 1
         THEN Outcome(h, Some(Len(h) - 1), Ok)
         ELSE Outcome(h, ci, ErrAtLatest)
    ELSE Outcome(h, ci, ErrNoData)

\* redo, store.rs:177-195
redo(h, ci, oc) ==
    IF IsSome(ci)
    THEN IF Len(h) = 0 /\ oc
         THEN Outcome(h, ci, Panic)            \* history.len() - 1 underflows
         ELSE IF Unwrap(ci) < WrappingSub(Len(h), 1)
              THEN Outcome(h, Some(Unwrap(ci) + 1), Ok)
              ELSE Outcome(h, ci, ErrAtLatest)
    ELSE Outcome(h, ci, ErrNoData)

\* Iterator::rposition: the highest index whose entry has the id
Position_Last(h, id) ==
    LET Hits == {i \in 1..Len(h) : h[i].id = id}
    IN  IF Hits = {} THEN None
        ELSE Some((CHOOSE i \in Hits : \A j \in Hits : i >= j) - 1)

\* Iterator::position: the lowest 0-based index whose entry has the id
Position(h, id) ==
    LET Hits == {i \in 1..Len(h) : h[i].id = id}
    IN  IF Hits = {} THEN None
        ELSE Some((CHOOSE i \in Hits : \A j \in Hits : i <= j) - 1)

\* jump_to that drops the cursor when the id is not found
jump_to_ResetOnMiss(h, ci, entry_id) ==
    LET index == Position(h, entry_id)
    IN  IF IsSome(index)
        THEN Outcome(h, Some(Unwrap(index)), Ok)
        ELSE Outcome(h, None, ErrEntryNotFound)

\* jump_to, store.rs:205-216
jump_to(h, ci, entry_id) ==
    LET index == Position(h, entry_id)
    IN  IF IsSome(index)
        THEN Outcome(h, Some(Unwrap(index)), Ok)
        ELSE Outcome(h, ci, ErrEntryNotFound)

\* clear that empties history and leaves the cursor as it was
clear_KeepCursor(h, ci) == Outcome(<<>>, ci, Ok)

\* clear, store.rs:263-266
clear(h, ci) == Outcome(<<>>, None, Ok)

\* reset_to_initial that truncates and leaves the cursor as it was
reset_to_initial_KeepCursor(h, ci) ==
    IF Len(h) = 0
    THEN Outcome(h, ci, ErrNoHistory)
    ELSE Outcome(Truncate(h, 1), ci, Ok)

\* reset_to_initial, store.rs:272-281
reset_to_initial(h, ci) ==
    IF Len(h) = 0
    THEN Outcome(h, ci, ErrNoHistory)
    ELSE Outcome(Truncate(h, 1), Some(0), Ok)

\* trim_history that does not shift the cursor of a surviving entry
trim_history_NoShift(h, ci, keep_count) ==
    IF Len(h) > keep_count
    THEN LET remove_count == Len(h) - keep_count
             h1 == DrainFront(h, remove_count)
         IN  IF IsSome(ci)
             THEN IF Unwrap(ci) < Len(h1)
                  THEN Outcome(h1, ci, Ok)
                  ELSE Outcome(h1, Some(0), Ok)
             ELSE Outcome(h1, ci, Ok)
    ELSE Outcome(h, ci, Ok)

\* trim_history, store.rs:287-301
trim_history(h, ci, keep_count) ==
    IF Len(h) > keep_count
    THEN LET remove_count == Len(h) - keep_count
             h1 == DrainFront(h, remove_count)
         IN  IF IsSome(ci)
             THEN IF Unwrap(ci) >= remove_count
                  THEN Outcome(h1, Some(Unwrap(ci) - remove_count), Ok)
                  ELSE Outcome(h1, Some(0), Ok)
             ELSE Outcome(h1, ci, Ok)
    ELSE Outcome(h, ci, Ok)

\* ------------------------------------------------------------------------
\* Read-only DataStore methods
\* ------------------------------------------------------------------------
\* get_current, store.rs:117-121 (Vec::get gives None out of range)
get_current(h, ci) ==
    IF IsSome(ci) /\ Unwrap(ci) < Len(h)
    THEN Some(h[Unwrap(ci) + 1].dataframe)
    ELSE None

\* get_current_info, store.rs:128-132
get_current_info(h, ci) ==
    IF IsSome(ci) /\ Unwrap(ci) < Len(h)
    THEN Some(h[Unwrap(ci) + 1].metadata)
    ELSE None

\* get_current_entry, store.rs:139-141
get_current_entry(h, ci) ==
    IF IsSome(ci) /\ Unwrap(ci) < Len(h)
    THEN Some(h[Unwrap(ci) + 1])
    ELSE None

\* impl From<&HistoryEntry> for HistoryEntryInfo, history.rs:273-283
HistoryEntryInfo(entry) ==
    [id |-> entry.id, operation |-> entry.operation, metadata |-> entry.metadata,
     timestamp |-> entry.timestamp, description |-> entry.description]

\* get_history that lists the newest entry first
get_history_Reversed(h) == [i \in 1..Len(h) |-> HistoryEntryInfo(h[Len(h) + 1 - i])]

\* get_history, store.rs:224-226
get_history(h) == [i \in 1..Len(h) |-> HistoryEntryInfo(h[i])]

\* get_current_index, store.rs:232-234
get_current_index(ci) == ci

\* history_len, store.rs:240-242
history_len(h) == Len(h)

\* what a &self method gives: a value, or a panic
Value(r, v) == [ret |-> r, val |-> v]

\* can_undo that is true whenever the store has a cursor
can_undo_NonEmpty(ci) == Value(Ok, IsSome(ci))

\* can_undo, store.rs:248-250
can_undo(ci) == Value(Ok, IsSome(ci) /\ Unwrap(ci) > 0)

\* can_redo, store.rs:256-258
can_redo(h, ci, oc) ==
    IF IsSome(ci)
    THEN IF Len(h) = 0 /\ oc
         THEN Value(Panic, FALSE)              \* history.len() - 1 underflows
         ELSE Value(Ok, Unwrap(ci) < WrappingSub(Len(h), 1))
    ELSE Value(Ok, FALSE)

\* ------------------------------------------------------------------------
\* Spec: one owner calling the public methods of a DataStore
\* ------------------------------------------------------------------------
NoCall == [op |-> "new", arg |-> 0, ret |-> Ok]

Procs == 1..NumProcs

\* no DataFrame cloned
NoFrame == DataFrame(0, 0)

\* the handler tasks before any command is invoked
HandlersIdle ==
    /\ lock_holder = 0
    /\ poisoned = FALSE
    /\ pc = [p \in Procs |-> "idle"]
    /\ cmd = [p \in Procs |-> "none"]
    /\ args = [p \in Procs |-> 0]
    /\ local = [p \in Procs |-> NoFrame]
    /\ ret = [p \in Procs |-> "none"]
    /\ invoked = 0

\* DataStore::with_max_history(max_history), store.rs:68-74
Init ==
    /\ history = <<>>
    /\ current_index = None
    /\ max_history \in 0..MaxDepth
    /\ overflow_checks \in BOOLEAN
    /\ next_df = 1
    /\ call = NoCall
    /\ pre = [history |-> <<>>, current_index |-> None]
    /\ HandlersIdle

\* a cursor the exploration follows: near 0 or near usize::MAX
Followed(ci) ==
    IsSome(ci) => (Unwrap(ci) <= Len(history) + IdxCap \/ Unwrap(ci) >= UsizeMax - IdxCap)

\* a call unwound by a panic ends the use of the store
Live == call.ret # Panic

Apply(op, arg, out) ==
    /\ Live
    /\ Followed(out.current_index)
    /\ history' = out.history
    /\ current_index' = out.current_index
    /\ call' = [op |-> op, arg |-> arg, ret |-> out.ret]
    /\ pre' = [history |-> history, current_index |-> current_index]
    /\ UNCHANGED <<max_history, overflow_checks>>
    /\ UNCHANGED handler_vars

\* the store never inspects entry.operation, so one variant stands for all
Push ==
    \E id \in 1..NumIds, operation \in {"DropNulls"} :
        /\ next_df <= MaxPushes
        /\ Apply("push_operation", id,
                 push_operation(history, current_index, max_history, overflow_checks,
                                HistoryEntry(id, operation, DataFrame(next_df, 0))))
        /\ next_df' = next_df + 1

Undo ==
    /\ Apply("undo", 0, undo(history, current_index))
    /\ UNCHANGED next_df

Redo ==
    /\ Apply("redo", 0, redo(history, current_index, overflow_checks))
    /\ UNCHANGED next_df

JumpTo ==
    \E id \in 1..NumIds :
        /\ Apply("jump_to", id, jump_to(history, current_index, id))
        /\ UNCHANGED next_df

Clear ==
    /\ Apply("clear", 0, clear(history, current_index))
    /\ UNCHANGED next_df

ResetToInitial ==
    /\ Apply("reset_to_initial", 0, reset_to_initial(history, current_index))
    /\ UNCHANGED next_df

TrimHistory ==
    \E keep_count \in 0..MaxKeep :
        /\ Apply("trim_history", keep_count, trim_history(history, current_index, keep_count))
        /\ UNCHANGED next_df

\* a call of a &self method: the fields stay, the value is returned
Observe(op, out) ==
    /\ Live
    /\ call' = [op |-> op, arg |-> 0, ret |-> out.ret, val |-> out.val]
    /\ pre' = [history |-> history, current_index |-> current_index]
    /\ UNCHANGED <<history, current_index, max_history, overflow_checks, next_df>>
    /\ UNCHANGED handler_vars

GetCurrent == Observe("get_current", Value(Ok, get_current(history, current_index)))

GetCurrentInfo == Observe("get_current_info", Value(Ok, get_current_info(history, current_index)))

GetCurrentEntry == Observe("get_current_entry", Value(Ok, get_current_entry(history, current_index)))

GetHistory == Observe("get_history", Value(Ok, get_history(history)))

GetCurrentIndex == Observe("get_current_index", Value(Ok, get_current_index(current_index)))

HistoryLen == Observe("history_len", Value(Ok, history_len(history)))

CanUndo == Observe("can_undo", can_undo(current_index))

CanRedo == Observe("can_redo", can_redo(history, current_index, overflow_checks))

Next ==
    \/ Push
    \/ Undo
    \/ Redo
    \/ JumpTo
    \/ Clear
    \/ ResetToInitial
    \/ TrimHistory
    \/ GetCurrent
    \/ GetCurrentInfo
    \/ GetCurrentEntry
    \/ GetHistory
    \/ GetCurrentIndex
    \/ HistoryLen
    \/ CanUndo
    \/ CanRedo

Spec == Init /\ [][Next]_vars

\* the store operations the request handlers perform (no trim_history)
RequestOpsNext ==
    \/ Push
    \/ Undo
    \/ Redo
    \/ JumpTo
    \/ Clear
    \/ ResetToInitial

RequestOpsSpec == Init /\ [][RequestOpsNext]_vars

\* ------------------------------------------------------------------------
\* HandlerSpec: the command handlers sharing Arc<Mutex<DataStore>>
\* ------------------------------------------------------------------------
\* DataStore::new(), store.rs:59-65
DefaultMaxHistory == 50

ErrLock == "Failed to lock data store: poisoned lock"
ErrLoad == "Failed to load CSV"
ErrEngine == "engine error"
ErrJoin == "task panicked"
ErrFile == "Failed to create or write file"

Commands ==
    {"import_csv", "drop_nulls", "get_current_data", "get_current_info",
     "get_history", "get_current_index", "undo_operation", "redo_operation",
     "jump_to_history", "can_undo", "can_redo", "reset_to_initial",
     "export_csv", "clear_data"}

\* positions at which a task holds the MutexGuard
HeldPcs == {"held", "cleared", "held2"}

\* lib.rs:116: Arc::new(Mutex::new(DataStore::new()))
HandlerInit ==
    /\ history = <<>>
    /\ current_index = None
    /\ max_history = DefaultMaxHistory
    /\ overflow_checks \in BOOLEAN
    /\ next_df = 1
    /\ call = NoCall
    /\ pre = [history |-> <<>>, current_index |-> None]
    /\ HandlersIdle

\* a lock that is granted while another guard exists
MutexFree_Always == TRUE

\* Mutex::lock can return only when no other guard exists
MutexFree == lock_holder = 0

\* a handler that recovers the guard from the PoisonError (into_inner)
MutexPoisoned_Recovered == FALSE

\* Mutex::lock returns Err(PoisonError) when the flag is set
MutexPoisoned == poisoned

\* the command returns r to the frontend and its task becomes free
Return(p, r) ==
    /\ pc' = [pc EXCEPT ![p] = "idle"]
    /\ ret' = [ret EXCEPT ![p] = r]
    /\ args' = [args EXCEPT ![p] = 0]
    /\ local' = [local EXCEPT ![p] = NoFrame]
    /\ UNCHANGED <<cmd, invoked>>

\* a lock released by an explicit unlock on the success path only
DropGuard_OnlyOnOk(r) ==
    /\ lock_holder' = IF r \in {Ok, Panic} THEN 0 ELSE lock_holder
    /\ poisoned' = (poisoned \/ r = Panic)

\* the guard is dropped: by scope end, by return, or by unwinding, which
\* sets the poison flag
DropGuard(r) ==
    /\ lock_holder' = 0
    /\ poisoned' = (poisoned \/ r = Panic)

\* the last statement of a critical section that ends the command
Finish(p, out) ==
    /\ history' = out.history
    /\ current_index' = out.current_index
    /\ DropGuard(out.ret)
    /\ Return(p, out.ret)
    /\ UNCHANGED <<max_history, overflow_checks, next_df, call, pre>>

Unchanged(r) == Outcome(history, current_index, r)

\* the frontend invokes a command on a free task
Invoke(p) ==
    /\ pc[p] = "idle"
    /\ invoked < MaxCalls
    /\ invoked' = invoked + 1
    /\ \E c \in Commands :
          /\ cmd' = [cmd EXCEPT ![p] = c]
          /\ pc' = [pc EXCEPT ![p] = IF c = "import_csv" THEN "load" ELSE "lock"]
          /\ \E a \in 0..MaxCalls :
                /\ (c = "jump_to_history") => a >= 1
                /\ (c = "get_current_data") => a \in {0, 1}
                /\ (c \notin {"jump_to_history", "get_current_data"}) => a = 0
                /\ args' = [args EXCEPT ![p] = a]
    /\ ret' = [ret EXCEPT ![p] = "pending"]
    /\ UNCHANGED <<local, lock_holder, poisoned>>
    /\ UNCHANGED store_vars

\* import_csv, file_import.rs:58-90: load the file, build the entry
LoadFile(p) ==
    /\ pc[p] = "load"
    /\ \/ /\ Return(p, ErrLoad)
          /\ UNCHANGED next_df
       \/ /\ next_df <= MaxPushes
          /\ pc' = [pc EXCEPT ![p] = "lock"]
          /\ local' = [local EXCEPT ![p] = DataFrame(next_df, 0)]
          /\ next_df' = next_df + 1
          /\ UNCHANGED <<cmd, args, ret, invoked>>
    /\ UNCHANGED <<lock_holder, poisoned>>
    /\ UNCHANGED <<history, current_index, max_history, overflow_checks, call, pre>>

\* state.data_store.lock().map_err(...)?  (every handler, e.g.
\* history.rs:26-29): blocks while another guard exists; on a poisoned
\* mutex the error, and the guard inside it, is dropped and the command
\* returns the lock failure
Acquire(p) ==
    /\ pc[p] \in {"lock", "lock2"}
    /\ MutexFree
    /\ IF MutexPoisoned
       THEN /\ Return(p, ErrLock)
            /\ UNCHANGED lock_holder
       ELSE /\ lock_holder' = p
            /\ pc' = [pc EXCEPT ![p] = IF pc[p] = "lock" THEN "held" ELSE "held2"]
            /\ UNCHANGED <<cmd, args, local, ret, invoked>>
    /\ UNCHANGED poisoned
    /\ UNCHANGED store_vars

\* import_csv that clears in a critical section of its own and locks again
\* for the push
cmd_import_csv_clear_Release(p) ==
    /\ pc[p] = "held" /\ cmd[p] = "import_csv"
    /\ LET out == clear(history, current_index)
       IN  /\ history' = out.history
           /\ current_index' = out.current_index
    /\ pc' = [pc EXCEPT ![p] = "cleared"]
    /\ lock_holder' = 0
    /\ UNCHANGED <<cmd, args, local, ret, invoked, poisoned>>
    /\ UNCHANGED <<max_history, overflow_checks, next_df, call, pre>>

\* import_csv that pushes without clearing the old history
cmd_import_csv_clear_Skip(p) ==
    /\ pc[p] = "held" /\ cmd[p] = "import_csv"
    /\ pc' = [pc EXCEPT ![p] = "cleared"]
    /\ UNCHANGED <<cmd, args, local, ret, invoked, lock_holder, poisoned>>
    /\ UNCHANGED store_vars

\* import_csv, file_import.rs:99: store.clear()
cmd_import_csv_clear(p) ==
    /\ pc[p] = "held" /\ cmd[p] = "import_csv"
    /\ LET out == clear(history, current_index)
       IN  /\ history' = out.history
           /\ current_index' = out.current_index
    /\ pc' = [pc EXCEPT ![p] = "cleared"]
    /\ UNCHANGED <<cmd, args, local, ret, invoked, lock_holder, poisoned>>
    /\ UNCHANGED <<max_history, overflow_checks, next_df, call, pre>>

\* import_csv, file_import.rs:102-107: store.push_operation(entry); Ok(info)
cmd_import_csv_push(p) ==
    /\ pc[p] = "cleared" /\ cmd[p] = "import_csv"
    /\ Finish(p, push_operation(history, current_index, max_history, overflow_checks,
                                HistoryEntry(local[p].serial, "Import", local[p])))

\* drop_nulls that keeps its guard alive across the engine call
cmd_drop_nulls_read_KeepGuard(p) ==
    /\ pc[p] = "held" /\ cmd[p] = "drop_nulls"
    /\ LET df == get_current(history, current_index)
       IN  IF IsSome(df)
           THEN /\ local' = [local EXCEPT ![p] = Unwrap(df)]
                /\ pc' = [pc EXCEPT ![p] = "compute"]
                /\ UNCHANGED <<cmd, args, ret, invoked>>
                /\ UNCHANGED <<lock_holder, poisoned>>
           ELSE /\ Return(p, ErrNoData)
                /\ DropGuard(Ok)
    /\ UNCHANGED store_vars

\* drop_nulls, operations.rs:83-90: clone the current DataFrame
cmd_drop_nulls_read(p) ==
    /\ pc[p] = "held" /\ cmd[p] = "drop_nulls"
    /\ LET df == get_current(history, current_index)
       IN  IF IsSome(df)
           THEN /\ local' = [local EXCEPT ![p] = Unwrap(df)]
                /\ pc' = [pc EXCEPT ![p] = "compute"]
                /\ UNCHANGED <<cmd, args, ret, invoked>>
           ELSE Return(p, ErrNoData)
    /\ DropGuard(Ok)
    /\ UNCHANGED store_vars

\* drop_nulls whose engine call reads the store's current snapshot through a
\* reference instead of the clone taken in the critical section
cmd_drop_nulls_compute_FromStore(p) ==
    /\ pc[p] = "compute"
    /\ \/ /\ \E r \in {ErrEngine, ErrJoin} : Return(p, r)
          /\ UNCHANGED next_df
       \/ /\ next_df <= MaxPushes
          /\ pc' = [pc EXCEPT ![p] = "lock2"]
          /\ LET df == get_current(history, current_index)
             IN  local' = [local EXCEPT ![p] =
                     DataFrame(next_df, IF IsSome(df) THEN Unwrap(df).serial ELSE 0)]
          /\ next_df' = next_df + 1
          /\ UNCHANGED <<cmd, args, ret, invoked>>
    /\ UNCHANGED <<lock_holder, poisoned>>
    /\ UNCHANGED <<history, current_index, max_history, overflow_checks, call, pre>>

\* drop_nulls, operations.rs:92-104: the engine call in spawn_blocking; an
\* engine error, or a panic of the blocking task (JoinError), becomes the
\* Err the command returns
cmd_drop_nulls_compute(p) ==
    /\ pc[p] = "compute"
    /\ \/ /\ \E r \in {ErrEngine, ErrJoin} : Return(p, r)
          /\ UNCHANGED next_df
       \/ /\ next_df <= MaxPushes
          /\ pc' = [pc EXCEPT ![p] = "lock2"]
          /\ local' = [local EXCEPT ![p] = DataFrame(next_df, local[p].serial)]
          /\ next_df' = next_df + 1
          /\ UNCHANGED <<cmd, args, ret, invoked>>
    /\ UNCHANGED <<lock_holder, poisoned>>
    /\ UNCHANGED <<history, current_index, max_history, overflow_checks, call, pre>>

\* drop_nulls that pushes its entry a second time
cmd_drop_nulls_push_Twice(p) ==
    /\ pc[p] = "held2" /\ cmd[p] = "drop_nulls"
    /\ LET entry == HistoryEntry(local[p].serial, "DropNulls", local[p])
           once == push_operation(history, current_index, max_history, overflow_checks, entry)
       IN  Finish(p, push_operation(once.history, once.current_index, max_history,
                                    overflow_checks, entry))

\* drop_nulls, operations.rs:111-116: create_history_entry, push_operation
cmd_drop_nulls_push(p) ==
    /\ pc[p] = "held2" /\ cmd[p] = "drop_nulls"
    /\ Finish(p, push_operation(history, current_index, max_history, overflow_checks,
                                HistoryEntry(local[p].serial, "DropNulls", local[p])))

\* get_current_data, data_query.rs:69-97; args = 1: offset + limit exceeds
\* usize::MAX, which panics in a build with overflow checks
cmd_get_current_data(p) ==
    /\ pc[p] = "held" /\ cmd[p] = "get_current_data"
    /\ Finish(p, IF get_current(history, current_index) = None
                 THEN Unchanged(ErrNoData)
                 ELSE IF args[p] = 1 /\ overflow_checks
                      THEN Unchanged(Panic)
                      ELSE Unchanged(Ok))

\* get_current_info, data_query.rs:30-39
cmd_get_current_info(p) ==
    /\ pc[p] = "held" /\ cmd[p] = "get_current_info"
    /\ Finish(p, Unchanged(Ok))

\* get_history, history.rs:24-35
cmd_get_history(p) ==
    /\ pc[p] = "held" /\ cmd[p] = "get_history"
    /\ Finish(p, Unchanged(Ok))

\* get_current_index, history.rs:45-52
cmd_get_current_index(p) ==
    /\ pc[p] = "held" /\ cmd[p] = "get_current_index"
    /\ Finish(p, Unchanged(Ok))

\* undo_operation, history.rs:64-73
cmd_undo_operation(p) ==
    /\ pc[p] = "held" /\ cmd[p] = "undo_operation"
    /\ Finish(p, undo(history, current_index))

\* redo_operation, history.rs:85-94
cmd_redo_operation(p) ==
    /\ pc[p] = "held" /\ cmd[p] = "redo_operation"
    /\ Finish(p, redo(history, current_index, overflow_checks))

\* jump_to_history, history.rs:107-116
cmd_jump_to_history(p) ==
    /\ pc[p] = "held" /\ cmd[p] = "jump_to_history"
    /\ Finish(p, jump_to(history, current_index, args[p]))

\* can_undo, history.rs:126-133
cmd_can_undo(p) ==
    /\ pc[p] = "held" /\ cmd[p] = "can_undo"
    /\ Finish(p, Unchanged(Ok))

\* can_redo, history.rs:140-147; store.rs:257 underflows on an empty
\* history with a cursor
cmd_can_redo(p) ==
    /\ pc[p] = "held" /\ cmd[p] = "can_redo"
    /\ Finish(p, IF IsSome(current_index) /\ Len(history) = 0 /\ overflow_checks
                 THEN Unchanged(Panic)
                 ELSE Unchanged(Ok))

\* reset_to_initial, history.rs:157-166
cmd_reset_to_initial(p) ==
    /\ pc[p] = "held" /\ cmd[p] = "reset_to_initial"
    /\ Finish(p, reset_to_initial(history, current_index))

\* export_csv that creates the output file before it asks for the data
cmd_export_csv_CreateFirst(p) ==
    /\ pc[p] = "held" /\ cmd[p] = "export_csv"
    /\ \/ Finish(p, Unchanged(ErrFile))
       \/ IF get_current(history, current_index) = None
          THEN Finish(p, Unchanged(ErrNoData))
          ELSE \E r \in {Ok, ErrFile} : Finish(p, Unchanged(r))

\* export_csv, data_export.rs:25-49: the file is written under the guard
cmd_export_csv(p) ==
    /\ pc[p] = "held" /\ cmd[p] = "export_csv"
    /\ IF get_current(history, current_index) = None
       THEN Finish(p, Unchanged(ErrNoData))
       ELSE \E r \in {Ok, ErrFile} : Finish(p, Unchanged(r))

\* clear_data, data_export.rs:94-102
cmd_clear_data(p) ==
    /\ pc[p] = "held" /\ cmd[p] = "clear_data"
    /\ Finish(p, clear(history, current_index))

HandlerNext ==
    \E p \in Procs :
        \/ Invoke(p)
        \/ LoadFile(p)
        \/ Acquire(p)
        \/ cmd_import_csv_clear(p)
        \/ cmd_import_csv_push(p)
        \/ cmd_drop_nulls_read(p)
        \/ cmd_drop_nulls_compute(p)
        \/ cmd_drop_nulls_push(p)
        \/ cmd_get_current_data(p)
        \/ cmd_get_current_info(p)
        \/ cmd_get_history(p)
        \/ cmd_get_current_index(p)
        \/ cmd_undo_operation(p)
        \/ cmd_redo_operation(p)
        \/ cmd_jump_to_history(p)
        \/ cmd_can_undo(p)
        \/ cmd_can_redo(p)
        \/ cmd_reset_to_initial(p)
        \/ cmd_export_csv(p)
        \/ cmd_clear_data(p)

HandlerSpec == HandlerInit /\ [][HandlerNext]_vars

\* get_history as the frontend sees it (history.rs:24-35, 172-178): the
\* list it receives, and the store at that moment, are recorded
frontend_get_history(p) ==
    /\ pc[p] = "held" /\ cmd[p] = "get_history"
    /\ call' = [op |-> "get_history", arg |-> p, ret |-> Ok, val |-> get_history(history)]
    /\ pre' = [history |-> history, current_index |-> current_index]
    /\ DropGuard(Ok)
    /\ Return(p, Ok)
    /\ UNCHANGED <<history, current_index, max_history, overflow_checks, next_df>>

\* get_current_index as the frontend sees it (history.rs:45-52, 172-181):
\* when it is the call that follows the frontend's get_history on the same
\* task, the index is recorded next to the list received before
frontend_get_current_index(p) ==
    /\ pc[p] = "held" /\ cmd[p] = "get_current_index"
    /\ call' = IF call.op = "get_history" /\ call.arg = p
               THEN [op |-> "get_history; get_current_index", arg |-> p, ret |-> Ok,
                     val |-> get_current_index(current_index), list |-> call.val]
               ELSE call
    /\ DropGuard(Ok)
    /\ Return(p, Ok)
    /\ UNCHANGED <<history, current_index, max_history, overflow_checks, next_df, pre>>

FrontendNext ==
    \E p \in Procs :
        \/ Invoke(p)
        \/ LoadFile(p)
        \/ Acquire(p)
        \/ cmd_import_csv_clear(p)
        \/ cmd_import_csv_push(p)
        \/ cmd_drop_nulls_read(p)
        \/ cmd_drop_nulls_compute(p)
        \/ cmd_drop_nulls_push(p)
        \/ cmd_get_current_data(p)
        \/ cmd_get_current_info(p)
        \/ frontend_get_history(p)
        \/ frontend_get_current_index(p)
        \/ cmd_undo_operation(p)
        \/ cmd_redo_operation(p)
        \/ cmd_jump_to_history(p)
        \/ cmd_can_undo(p)
        \/ cmd_can_redo(p)
        \/ cmd_reset_to_initial(p)
        \/ cmd_export_csv(p)
        \/ cmd_clear_data(p)

\* the handlers, with what the frontend received from get_history and from
\* the get_current_index after it
FrontendSpec == HandlerInit /\ [][FrontendNext]_vars

\* the steps of a running command: everything but its invocation
Progress(p) ==
    \/ LoadFile(p)
    \/ Acquire(p)
    \/ cmd_import_csv_clear(p)
    \/ cmd_import_csv_push(p)
    \/ cmd_drop_nulls_read(p)
    \/ cmd_drop_nulls_compute(p)
    \/ cmd_drop_nulls_push(p)
    \/ cmd_get_current_data(p)
    \/ cmd_get_current_info(p)
    \/ cmd_get_history(p)
    \/ cmd_get_current_index(p)
    \/ cmd_undo_operation(p)
    \/ cmd_redo_operation(p)
    \/ cmd_jump_to_history(p)
    \/ cmd_can_undo(p)
    \/ cmd_can_redo(p)
    \/ cmd_reset_to_initial(p)
    \/ cmd_export_csv(p)
    \/ cmd_clear_data(p)

\* HandlerSpec under fair scheduling of the tasks with terminating file and
\* engine computations: a command that can take a step eventually does
FairHandlerSpec ==
    HandlerInit /\ [][HandlerNext]_vars /\ \A p \in Procs : WF_vars(Progress(p))

\* ------------------------------------------------------------------------
\* Properties of the store (checked under Spec)
\* ------------------------------------------------------------------------
\* the entries of pre.history a push keeps: those at indices 0..=cursor
Survivors ==
    IF IsSome(pre.current_index)
    THEN SubSeq(pre.history, 1, IF Unwrap(pre.current_index) + 1 <= Len(pre.history)
                                THEN Unwrap(pre.current_index) + 1
                                ELSE Len(pre.history))
    ELSE <<>>

IsErr(r) == r # Ok /\ r # Panic

Entries(h) == {h[i] : i \in DOMAIN h}

\* C1: in every state reachable by the public store operations (trim_history
\* with any keep_count included), current_index is None if and only if
\* history is empty.  Stated for the stores with max_history >= 1, the case
\* of DataStore::new().
C1_CursorNoneIffEmpty ==
    max_history >= 1 => ((current_index = None) <=> (history = <<>>))

\* C2: with max_history >= 1 the history never holds more than max_history
\* entries; a push that would exceed the bound removes exactly one entry, the
\* oldest, and no operation other than push_operation lengthens the history.
C2_BoundedDepth ==
    max_history >= 1 =>
        /\ Len(history) <= max_history
        /\ (call.op = "push_operation" /\ Len(Survivors) + 1 > max_history) =>
               /\ Len(history) = Len(Survivors)
               /\ \A i \in 1..(Len(history) - 1) : history[i] = Survivors[i + 1]
               /\ history[Len(history)].dataframe.serial = next_df - 1
        /\ (call.op = "push_operation" /\ Len(Survivors) + 1 <= max_history) =>
               Len(history) = Len(Survivors) + 1
        /\ call.op # "push_operation" => Len(history) <= Len(pre.history)

\* C2 witness: a push into a full store evicted the oldest entry
C2_Witness ==
    /\ max_history >= 2
    /\ call.op = "push_operation"
    /\ Len(pre.history) = max_history
    /\ pre.current_index = Some(max_history - 1)
    /\ Len(history) = max_history
    /\ history[1] = pre.history[2]

\* this step is a push_operation from a cursor below the tip
PushBelowTip ==
    /\ call'.op = "push_operation"
    /\ next_df' = next_df + 1
    /\ IsSome(current_index)
    /\ Unwrap(current_index) < Len(history) - 1

\* C3: linear history.  A push from current_index = Some(i), i < len - 1,
\* leaves exactly i + 2 entries: the i + 1 entries at indices 0..i in their
\* old order, then the new entry.  No step brings back an entry that is not
\* in history: every entry of the next history is an entry of the current
\* one or the entry being pushed, so discarded entries stay unreachable.
C3_LinearHistory ==
    [][ /\ PushBelowTip =>
            /\ Len(history') = Unwrap(current_index) + 2
            /\ \A i \in 1..(Unwrap(current_index) + 1) : history'[i] = history[i]
            /\ history'[Len(history')].dataframe.serial = next_df
            /\ current_index' = Some(Unwrap(current_index) + 1)
        /\ \A e \in Entries(history') :
              e \in Entries(history) \/ (e.dataframe.serial = next_df /\ next_df' = next_df + 1)
      ]_vars

\* C3 witness: a push after an undo discarded at least one redo entry
C3_Witness ==
    /\ call.op = "push_operation"
    /\ IsSome(pre.current_index)
    /\ Unwrap(pre.current_index) < Len(pre.history) - 1
    /\ Len(history) = Unwrap(pre.current_index) + 2
    /\ pre.history[Len(pre.history)] \notin Entries(history)

\* C4: when undo, redo, jump_to or reset_to_initial returns an error, history
\* and current_index are what they were before the call.
C4_NoOpOnError ==
    (call.op \in {"undo", "redo", "jump_to", "reset_to_initial"} /\ IsErr(call.ret)) =>
        /\ history = pre.history
        /\ current_index = pre.current_index

\* C4 witness: a jump_to failed on a store holding entries, cursor below tip
C4_Witness ==
    /\ call.op = "jump_to"
    /\ call.ret = ErrEntryNotFound
    /\ Len(history) >= 2
    /\ current_index = Some(0)

\* C7: undo from Some(i), i > 0, succeeds with Some(i - 1); from Some(0) it
\* fails with the at-earliest error and from None with the no-data error,
\* the cursor staying where it was.
C7_Undo ==
    call.op = "undo" =>
        /\ (IsSome(pre.current_index) /\ Unwrap(pre.current_index) > 0) =>
               /\ call.ret = Ok
               /\ current_index = Some(Unwrap(pre.current_index) - 1)
        /\ pre.current_index = Some(0) =>
               /\ call.ret = ErrAtEarliest
               /\ current_index = Some(0)
        /\ pre.current_index = None =>
               /\ call.ret = ErrNoData
               /\ current_index = None

\* C7 witness: an undo at the earliest entry of a longer history was refused
C7_Witness ==
    /\ call.op = "undo"
    /\ pre.current_index = Some(0)
    /\ Len(history) >= 2
    /\ call.ret = ErrAtEarliest

\* C8: redo from Some(i), i < len - 1, succeeds with Some(i + 1); with the
\* cursor at the last entry it fails with the at-latest error; on a store
\* with no entries it fails with the no-data error.  Stated for the stores
\* with max_history >= 1, the case of DataStore::new().
C8_Redo ==
    (max_history >= 1 /\ call.op = "redo") =>
        /\ (IsSome(pre.current_index) /\ Unwrap(pre.current_index) < Len(pre.history) - 1) =>
               /\ call.ret = Ok
               /\ current_index = Some(Unwrap(pre.current_index) + 1)
        /\ (Len(pre.history) >= 1 /\ pre.current_index = Some(Len(pre.history) - 1)) =>
               call.ret = ErrAtLatest
        /\ Len(pre.history) = 0 => call.ret = ErrNoData

\* C9: undo then redo, and redo then undo, restore the cursor and leave the
\* history alone: after a successful undo, redo on the state reached gives
\* back the state the undo started from, and symmetrically.
C9_RoundTrip ==
    /\ (call.op = "undo" /\ call.ret = Ok) =>
           LET r == redo(history, current_index, overflow_checks)
           IN  /\ r.ret = Ok
               /\ r.current_index = pre.current_index
               /\ r.history = pre.history
               /\ history = pre.history
    /\ (call.op = "redo" /\ call.ret = Ok) =>
           LET u == undo(history, current_index)
           IN  /\ u.ret = Ok
               /\ u.current_index = pre.current_index
               /\ u.history = pre.history
               /\ history = pre.history

\* C9 witness: an undo succeeded from the middle of a three-entry history
C9_Witness ==
    /\ call.op = "undo"
    /\ call.ret = Ok
    /\ Len(history) = 3
    /\ pre.current_index = Some(1)
    /\ current_index = Some(0)

\* C10: jump_to(id) succeeds exactly when an entry has that id and then sets
\* the cursor to the lowest index holding it; otherwise it fails with the
\* entry-not-found error and the cursor is unchanged.
C10_JumpTo ==
    call.op = "jump_to" =>
        IF \E i \in 1..Len(pre.history) : pre.history[i].id = call.arg
        THEN /\ call.ret = Ok
             /\ IsSome(current_index)
             /\ Unwrap(current_index) < Len(pre.history)
             /\ pre.history[Unwrap(current_index) + 1].id = call.arg
             /\ \A j \in 1..Unwrap(current_index) : pre.history[j].id # call.arg
        ELSE /\ call.ret = ErrEntryNotFound
             /\ current_index = pre.current_index

\* C10 witness: two entries share the id and the jump went to the lower one
C10_Witness ==
    /\ call.op = "jump_to"
    /\ call.ret = Ok
    /\ Len(history) = 3
    /\ history[2].id = call.arg
    /\ history[3].id = call.arg
    /\ history[1].id # call.arg
    /\ pre.current_index = Some(2)
    /\ current_index = Some(1)

\* C11: reset_to_initial on an empty history fails with 'no history'; on a
\* history of N >= 1 entries it leaves exactly the former history[0] with
\* current_index = Some(0) whatever the cursor was, a redo right after it
\* fails at the latest entry, and on a single-entry store nothing changes.
C11_ResetToInitial ==
    call.op = "reset_to_initial" =>
        /\ Len(pre.history) = 0 => call.ret = ErrNoHistory
        /\ Len(pre.history) >= 1 =>
              /\ call.ret = Ok
              /\ history = <<pre.history[1]>>
              /\ current_index = Some(0)
              /\ redo(history, current_index, overflow_checks).ret = ErrAtLatest
        /\ Len(pre.history) = 1 =>
              /\ history = pre.history
              /\ current_index = pre.current_index

\* C11 witness: a reset from the tip of a three-entry history
C11_Witness ==
    /\ call.op = "reset_to_initial"
    /\ Len(pre.history) = 3
    /\ pre.current_index = Some(2)
    /\ history = <<pre.history[1]>>
    /\ current_index = Some(0)

\* C12: eviction.  A push into a full store (len = max_history, cursor at
\* the tip) leaves len = max_history, the former oldest entry is gone from
\* get_history(), the survivors moved down by one in their order, and
\* current_index points at the pushed entry, which is last.
C12_Eviction ==
    ( /\ call.op = "push_operation"
      /\ Len(pre.history) >= 1
      /\ Len(pre.history) = max_history
      /\ pre.current_index = Some(Len(pre.history) - 1) ) =>
        /\ Len(history) = max_history
        /\ \A i \in 1..Len(history) :
              get_history(history)[i] # HistoryEntryInfo(pre.history[1])
        /\ \A i \in 1..(Len(history) - 1) : history[i] = pre.history[i + 1]
        /\ history[Len(history)].dataframe = DataFrame(next_df - 1, 0)
        /\ history[Len(history)].id = call.arg
        /\ current_index = Some(Len(history) - 1)

\* C12 witness: a push into a full three-entry store evicted the oldest
C12_Witness ==
    /\ call.op = "push_operation"
    /\ max_history = 3
    /\ Len(pre.history) = 3
    /\ pre.current_index = Some(2)
    /\ Len(history) = 3
    /\ history[1] = pre.history[2]
    /\ current_index = Some(2)

\* C13: after every push_operation on a store with max_history >= 1, from
\* any reachable state, current_index = Some(len - 1), the last entry is the
\* pushed one, get_current() is its snapshot and can_redo() is false.
C13_PushMovesToTip ==
    (call.op = "push_operation" /\ max_history >= 1) =>
        /\ call.ret = Ok
        /\ Len(history) >= 1
        /\ current_index = Some(Len(history) - 1)
        /\ history[Len(history)] \in
              {HistoryEntry(call.arg, o, DataFrame(next_df - 1, 0)) : o \in OperationTypes}
        /\ get_current(history, current_index) = Some(DataFrame(next_df - 1, 0))
        /\ can_redo(history, current_index, overflow_checks) = Value(Ok, FALSE)

\* C13 witness: a push onto the store that trim_history(0) had emptied
\* without clearing the cursor
C13_Witness ==
    /\ call.op = "push_operation"
    /\ pre.history = <<>>
    /\ pre.current_index = Some(0)
    /\ Len(history) = 1
    /\ current_index = Some(0)

\* the entries are consecutive pushes: each snapshot is the one made right
\* after its predecessor's
ConsecutivePushes(h) ==
    \A i \in 1..(Len(h) - 1) : h[i + 1].dataframe.serial = h[i].dataframe.serial + 1

\* C14: k consecutive pushes into an empty store, k <= max_history, leave
\* exactly k entries in push order and current_index = Some(k - 1).  Stated
\* as the step from k - 1 to k: when the store holds (nothing or) the
\* k - 1 latest pushes with the cursor on the last of them and k <=
\* max_history, the push leaves those entries in place, the new one after
\* them, and the cursor on it.
C14_PushSequence ==
    ( /\ call.op = "push_operation"
      /\ Len(pre.history) < max_history
      /\ \/ Len(pre.history) = 0
         \/ /\ ConsecutivePushes(pre.history)
            /\ pre.history[Len(pre.history)].dataframe.serial = next_df - 2
            /\ pre.current_index = Some(Len(pre.history) - 1) ) =>
        /\ Len(history) = Len(pre.history) + 1
        /\ \A i \in 1..Len(pre.history) : history[i] = pre.history[i]
        /\ history[Len(history)].dataframe.serial = next_df - 1
        /\ ConsecutivePushes(history)
        /\ current_index = Some(Len(history) - 1)

\* C14 witness: the third of three pushes into a new store of capacity 3
C14_Witness ==
    /\ call.op = "push_operation"
    /\ max_history = 3
    /\ next_df = 4
    /\ Len(history) = 3
    /\ \A i \in 1..3 : history[i].dataframe.serial = i
    /\ current_index = Some(2)

\* C15: clear never fails and leaves the store as a new one: history empty,
\* current_index None, get_current() none, can_undo() and can_redo() false,
\* and undo() failing with 'no data'.
C15_Clear ==
    call.op = "clear" =>
        /\ call.ret = Ok
        /\ history = <<>>
        /\ current_index = None
        /\ get_current(history, current_index) = None
        /\ can_undo(current_index) = Value(Ok, FALSE)
        /\ can_redo(history, current_index, overflow_checks) = Value(Ok, FALSE)
        /\ undo(history, current_index).ret = ErrNoData

\* C15 witness: a clear of a three-entry history
C15_Witness ==
    /\ call.op = "clear"
    /\ Len(pre.history) = 3
    /\ IsSome(pre.current_index)
    /\ history = <<>>
    /\ current_index = None

C17_CursorOnly ==
    call.op \in {"undo", "redo", "jump_to"} => history = pre.history

\* C17 witness: a successful undo in a three-entry history
C17_Witness ==
    /\ call.op = "undo"
    /\ call.ret = Ok
    /\ Len(pre.history) = 3
    /\ current_index # pre.current_index
    /\ history = pre.history

\* C18: in every reachable state can_undo() is true exactly when an undo()
\* right after it would succeed and can_redo() is true exactly when a redo()
\* would; a call of either leaves history and current_index unchanged.
C18_Predicates ==
    /\ LET cu == can_undo(current_index)
       IN  (cu.ret = Ok /\ cu.val) <=> undo(history, current_index).ret = Ok
    /\ LET cr == can_redo(history, current_index, overflow_checks)
       IN  (cr.ret = Ok /\ cr.val) <=>
              redo(history, current_index, overflow_checks).ret = Ok
    /\ call.op = "can_undo" =>
          /\ history = pre.history /\ current_index = pre.current_index
          /\ (call.ret = Ok /\ call.val) <=> undo(history, current_index).ret = Ok
    /\ call.op = "can_redo" =>
          /\ history = pre.history /\ current_index = pre.current_index
          /\ (call.ret = Ok /\ call.val) <=>
                redo(history, current_index, overflow_checks).ret = Ok

\* C18 witness: can_undo() answered false on the first of three entries,
\* where redo is possible
C18_Witness ==
    /\ call.op = "can_undo"
    /\ call.val = FALSE
    /\ Len(history) = 3
    /\ current_index = Some(0)
    /\ can_redo(history, current_index, overflow_checks) = Value(Ok, TRUE)

\* C19: in every reachable state of a store with max_history >= 1,
\* get_current(), get_current_info() and get_current_entry() are none
\* exactly when current_index is None and otherwise are the snapshot, the
\* metadata and the entry of history[current_index]; a call of one of them
\* leaves the store unchanged.
C19_CursorAccessors ==
    max_history >= 1 =>
        /\ get_current(history, current_index) = None <=> current_index = None
        /\ get_current_info(history, current_index) = None <=> current_index = None
        /\ get_current_entry(history, current_index) = None <=> current_index = None
        /\ IsSome(current_index) =>
              LET e == history[Unwrap(current_index) + 1]
              IN  /\ get_current(history, current_index) = Some(e.dataframe)
                  /\ get_current_info(history, current_index) = Some(e.metadata)
                  /\ get_current_entry(history, current_index) = Some(e)
        /\ call.op \in {"get_current", "get_current_info", "get_current_entry"} =>
              /\ history = pre.history
              /\ current_index = pre.current_index

\* C20: get_history() gives one summary per entry, in history order, with
\* the entry's id, operation, metadata, timestamp and description and
\* without its snapshot; its length is history_len(); entries beyond the
\* cursor are included; the store is unchanged.
C20_GetHistory ==
    call.op = "get_history" =>
        /\ call.ret = Ok
        /\ Len(call.val) = Len(history)
        /\ Len(call.val) = history_len(history)
        /\ \A i \in 1..Len(history) :
              /\ call.val[i].id = history[i].id
              /\ call.val[i].operation = history[i].operation
              /\ call.val[i].metadata = history[i].metadata
              /\ call.val[i].timestamp = history[i].timestamp
              /\ call.val[i].description = history[i].description
              /\ "dataframe" \notin DOMAIN call.val[i]
        /\ history = pre.history
        /\ current_index = pre.current_index

\* C20 witness: get_history() on three entries with the cursor on the first
C20_Witness ==
    /\ call.op = "get_history"
    /\ Len(call.val) = 3
    /\ current_index = Some(0)
    /\ call.val[3].timestamp = history[3].timestamp

\* the error kinds of the store and of the lock
ErrorKinds == {ErrNoData, ErrAtEarliest, ErrAtLatest, ErrEntryNotFound, ErrNoHistory, ErrLock}

\* C21: each failing store operation reports the error of its own
\* precondition and the errors are distinguishable: undo and redo on an
\* empty history report 'no data', undo at index 0 and redo at the last
\* index report the boundary error, jump_to with an absent id reports 'entry
\* not found', reset_to_initial on an empty history reports 'no history', and
\* the lock failure differs from all of them.  Stated for max_history >= 1.
C21_ErrorKinds ==
    max_history >= 1 =>
        /\ Cardinality(ErrorKinds) = 6
        /\ (call.op \in {"undo", "redo"} /\ pre.history = <<>>) => call.ret = ErrNoData
        /\ (call.op = "undo" /\ pre.history # <<>> /\ pre.current_index = Some(0)) =>
              call.ret = ErrAtEarliest
        /\ (call.op = "redo" /\ pre.history # <<>>
                /\ pre.current_index = Some(Len(pre.history) - 1)) =>
              call.ret = ErrAtLatest
        /\ (call.op = "jump_to" /\ Position(pre.history, call.arg) = None) =>
              call.ret = ErrEntryNotFound
        /\ (call.op = "reset_to_initial" /\ pre.history = <<>>) => call.ret = ErrNoHistory

\* the snapshots of a history, oldest first
Serials(h) == [i \in 1..Len(h) |-> h[i].dataframe.serial]

C27_Scenario ==
    max_history = 3 =>
        /\ (call.op = "push_operation" /\ pre.history = <<>> /\ next_df = 2) =>
              (Serials(history) = <<1>> /\ current_index = Some(0))
        /\ (call.op = "push_operation" /\ Serials(pre.history) = <<1>>
                /\ pre.current_index = Some(0) /\ next_df = 3) =>
              (Serials(history) = <<1, 2>> /\ current_index = Some(1))
        /\ (call.op = "push_operation" /\ Serials(pre.history) = <<1, 2>>
                /\ pre.current_index = Some(1) /\ next_df = 4) =>
              (Serials(history) = <<1, 2, 3>> /\ current_index = Some(2))
        /\ (call.op = "push_operation" /\ Serials(pre.history) = <<1, 2, 3>>
                /\ pre.current_index = Some(2) /\ next_df = 5) =>
              /\ Serials(history) = <<2, 3, 4>>
              /\ \A i \in 1..2 : history[i] = pre.history[i + 1]
              /\ current_index = Some(2)
        /\ (call.op = "undo" /\ Serials(pre.history) = <<2, 3, 4>>
                /\ pre.current_index = Some(2)) =>
              (call.ret = Ok /\ history = pre.history /\ current_index = Some(1))
        /\ (call.op = "undo" /\ Serials(pre.history) = <<2, 3, 4>>
                /\ pre.current_index = Some(1)) =>
              /\ call.ret = Ok /\ history = pre.history /\ current_index = Some(0)
              /\ can_undo(current_index) = Value(Ok, FALSE)
        /\ (call.op = "push_operation" /\ Serials(pre.history) = <<2, 3, 4>>
                /\ pre.current_index = Some(0) /\ next_df = 6) =>
              /\ Serials(history) = <<2, 5>>
              /\ history[1] = pre.history[1]
              /\ current_index = Some(1)
              /\ redo(history, current_index, overflow_checks).ret = ErrAtLatest
              /\ \A id \in 1..NumIds :
                    LET out == jump_to(history, current_index, id)
                    IN  out.ret = Ok =>
                          out.history[Unwrap(out.current_index) + 1].dataframe.serial
                              \in {2, 5}

\* C27 witness: the store after the push of E
C27_Witness ==
    /\ max_history = 3
    /\ call.op = "push_operation"
    /\ Serials(pre.history) = <<2, 3, 4>>
    /\ pre.current_index = Some(0)
    /\ next_df = 6
    /\ Serials(history) = <<2, 5>>
    /\ current_index = Some(1)

\* C32: in every state reachable by the operations the handlers perform
\* (push_operation, undo, redo, jump_to, reset_to_initial, clear) on a store
\* with max_history >= 1, current_index = Some(i) implies 0 <= i < len.
C32_CursorInRange ==
    max_history >= 1 =>
        (IsSome(current_index) =>
            /\ 0 <= Unwrap(current_index)
            /\ Unwrap(current_index) < Len(history))

\* C32 witness: redo refused at the tip of a full two-entry history
C32_Witness ==
    /\ max_history = 2
    /\ call.op = "redo"
    /\ call.ret = ErrAtLatest
    /\ Len(history) = 2
    /\ current_index = Some(1)

\* C33: no store operation underflows history.len() - 1.  redo and can_redo
\* evaluate it when there is a cursor, push_operation after its push and
\* eviction: in each case history is non-empty, for every max_history and
\* every keep_count, so push_operation succeeds and can_undo and can_redo
\* never fail.
C33_NoUnderflow ==
    /\ (call.op \in {"redo", "can_redo"} /\ IsSome(pre.current_index)) =>
          Len(pre.history) >= 1
    /\ call.op = "push_operation" => (Len(history) >= 1 /\ call.ret = Ok)
    /\ call.op \in {"can_undo", "can_redo"} => call.ret = Ok

\* C35: a push that evicts the oldest entry starts from the tip of a full
\* history (current_index = Some(len - 1), len = max_history) and discards
\* no redo entry; a push from a cursor below the tip never evicts.
C35_EvictOnlyAtTip ==
    call.op = "push_operation" =>
        /\ Len(Survivors) + 1 > max_history =>
              /\ Len(pre.history) >= 1
              /\ pre.current_index = Some(Len(pre.history) - 1)
              /\ Len(pre.history) = max_history
              /\ Survivors = pre.history
        /\ (IsSome(pre.current_index)
                /\ Unwrap(pre.current_index) < Len(pre.history) - 1) =>
              /\ Len(history) = Len(Survivors) + 1
              /\ \A i \in 1..Len(Survivors) : history[i] = Survivors[i]

\* ------------------------------------------------------------------------
\* Properties of the handlers (checked under HandlerSpec)
\* ------------------------------------------------------------------------
StoredFrames == {history[i].dataframe : i \in DOMAIN history}

\* C5: mutual exclusion.  At most one handler is inside a critical section
\* and it is the holder of the lock; every step that writes history or
\* current_index, and every step in which a handler obtains a clone of a
\* stored DataFrame, is a step of the handler holding the lock.
C5_MutualExclusion ==
    /\ [](\A p \in Procs : \A q \in Procs :
             /\ (pc[p] \in HeldPcs /\ pc[q] \in HeldPcs) => p = q
             /\ pc[p] \in HeldPcs <=> lock_holder = p)
    /\ [][ /\ (history' # history \/ current_index' # current_index) =>
                /\ lock_holder \in Procs
                /\ pc[lock_holder] \in HeldPcs
                /\ \A q \in Procs : q # lock_holder => pc'[q] = pc[q]
           /\ \A p \in Procs :
                (local'[p] # local[p] /\ local'[p] \in StoredFrames) => lock_holder = p
         ]_vars

\* C5 witness: one handler is between clear and push of an import while
\* another one waits for the lock
C5_Witness ==
    /\ lock_holder = 1
    /\ pc[1] = "cleared"
    /\ pc[2] = "lock"
    /\ cmd[2] = "get_history"

\* C6: poisoning.  A handler that panics while holding the lock poisons it;
\* from then on the flag stays set, no handler enters a critical section or
\* changes the store, and every acquisition attempt ends the command with
\* the lock-failure error.
C6_Poisoning ==
    [][ /\ \A p \in Procs :
              (lock_holder = p /\ ret'[p] = Panic /\ pc'[p] = "idle") => poisoned'
        /\ poisoned =>
              /\ poisoned'
              /\ history' = history
              /\ current_index' = current_index
              /\ lock_holder' = 0
              /\ \A p \in Procs :
                    /\ pc'[p] \notin HeldPcs
                    /\ (pc[p] \in {"lock", "lock2"} /\ pc'[p] # pc[p]) =>
                          (pc'[p] = "idle" /\ ret'[p] = ErrLock)
                    /\ (local'[p] # local[p]) => local'[p] \notin StoredFrames
      ]_vars

\* C6 witness: get_current_data panicked under the lock on a loaded dataset
\* and a later command of another task got the lock failure
C6_Witness ==
    /\ poisoned
    /\ history # <<>>
    /\ \E p \in Procs : \E q \in Procs :
          /\ cmd[p] = "get_current_data" /\ ret[p] = Panic
          /\ q # p /\ pc[q] = "idle" /\ ret[q] = ErrLock

\* C22: every handler releases the lock on every exit path that is not a
\* panic: a task outside a critical section never holds the lock, and the
\* step in which a task leaves a critical section (normal return, early
\* return with 'no data', a domain error of undo / redo / jump_to /
\* reset_to_initial, or the end of the first section of a transform) leaves
\* the lock free.
C22_LockReleased ==
    /\ [](\A p \in Procs : pc[p] \notin HeldPcs => lock_holder # p)
    /\ [][ \A p \in Procs :
              (pc[p] \in HeldPcs /\ pc'[p] \notin HeldPcs /\ ret'[p] # Panic) =>
                  lock_holder' = 0
         ]_vars

\* C22 witness: undo_operation returned the 'no data' error and another
\* task holds the lock afterwards
C22_Witness ==
    \E p \in Procs : \E q \in Procs :
        /\ p # q
        /\ pc[p] = "idle" /\ cmd[p] = "undo_operation" /\ ret[p] = ErrNoData
        /\ lock_holder = q

\* C24: no torn observation during import.  While an import is between its
\* clear and its push it holds the lock, no other task is in a critical
\* section and none enters one; the push ends the section with a history
\* that is the import entry alone.
C24_ImportAtomic ==
    /\ [](\A p \in Procs : pc[p] = "cleared" =>
             /\ lock_holder = p
             /\ history = <<>>
             /\ \A q \in Procs : q # p => pc[q] \notin HeldPcs)
    /\ [][ \A p \in Procs : pc[p] = "cleared" =>
              /\ \A q \in Procs : q # p => pc'[q] \notin HeldPcs
              /\ pc'[p] # "cleared" =>
                    /\ history' = <<HistoryEntry(local[p].serial, "Import", local[p])>>
                    /\ current_index' = Some(0)
         ]_vars

\* C24 witness: an import of a second dataset is between clear and push
\* while a transform of the first dataset waits to push its result
C24_Witness ==
    \E p \in Procs : \E q \in Procs :
        /\ pc[p] = "cleared" /\ cmd[p] = "import_csv"
        /\ local[p].serial >= 2
        /\ pc[q] = "lock2" /\ local[q].parent >= 1

\* the commands that push: the imports and the transforms
PushingCommands == {"import_csv", "drop_nulls"}

\* the entries a push keeps: those at indices 0..=cursor
KeptByPush ==
    IF IsSome(current_index)
    THEN Truncate(history, Unwrap(current_index) + 1)
    ELSE <<>>

\* C25: an import or transform invocation that returns Ok performs exactly
\* one push, in the step that returns; one that returns an error (load
\* failure, 'no data', engine error, lock failure) pushes nothing and leaves
\* the store as it is; no other step of such a command changes the store
\* except the clear of an import, which precedes its push in the same
\* critical section.
C25_OnePushPerSuccess ==
    /\ [](\A p \in Procs :
             (cmd[p] \in PushingCommands /\ pc[p] \in {"cleared", "lock2", "held2"}) =>
                 local[p] \notin StoredFrames)
    /\ [][ \A p \in Procs :
              (cmd[p] \in PushingCommands /\ pc[p] # "idle" /\ pc'[p] # pc[p]) =>
                  IF pc'[p] = "idle"
                  THEN IF ret'[p] = Ok
                       THEN /\ history' = Append(KeptByPush, history'[Len(history')])
                            /\ history'[Len(history')].dataframe = local[p]
                            /\ current_index' = Some(Len(history') - 1)
                       ELSE /\ IsErr(ret'[p])
                            /\ history' = history
                            /\ current_index' = current_index
                  ELSE \/ history' = history /\ current_index' = current_index
                       \/ /\ cmd[p] = "import_csv" /\ pc[p] = "held" /\ pc'[p] = "cleared"
                          /\ history' = <<>>
         ]_vars

\* C25 witness: a drop_nulls returned Ok with its entry after the import's
C25_Witness ==
    \E p \in Procs :
        /\ pc[p] = "idle" /\ cmd[p] = "drop_nulls" /\ ret[p] = Ok
        /\ Len(history) = 2
        /\ history[1].operation = "Import"
        /\ history[2].operation = "DropNulls"
        /\ current_index = Some(1)

\* C26: the snapshot a handler cloned in its critical section is the one
\* it keeps and computes from after the release, whatever other handlers do
\* to the entry that owns it; no step changes the snapshot of an entry.
C26_SnapshotStable ==
    [][ /\ \A p \in Procs :
              /\ (pc[p] = "held" /\ pc'[p] = "compute") =>
                    Some(local'[p]) = get_current(history, current_index)
              /\ (pc[p] = "compute" /\ pc'[p] = "compute") => local'[p] = local[p]
              /\ (pc[p] = "compute" /\ pc'[p] = "lock2") =>
                    local'[p].parent = local[p].serial
        /\ \A i \in DOMAIN history : \A j \in DOMAIN history' :
              history'[j].id = history[i].id => history'[j].dataframe = history[i].dataframe
      ]_vars

\* C26 witness: a transform finished computing from a snapshot whose entry
\* is no longer in the store
C26_Witness ==
    \E p \in Procs :
        /\ pc[p] = "lock2"
        /\ local[p].parent >= 1
        /\ \A f \in StoredFrames : f.serial # local[p].parent

\* the modelled commands that need the current snapshot
SnapshotCommands == {"drop_nulls", "get_current_data", "export_csv"}

C29_ResetGivesImport ==
    (lock_holder = 0 /\ ~poisoned) =>
        LET out == reset_to_initial(history, current_index)
        IN  out.ret = Ok =>
              /\ Len(out.history) = 1
              /\ out.history[1].operation = "Import"

\* C30: no deadlock on the lock.  A task waiting for the lock is not its
\* holder; under fair scheduling every task that requests the lock
\* eventually holds it and every invocation eventually returns.
C30_NoDeadlock ==
    /\ [](\A p \in Procs : pc[p] \in {"lock", "lock2"} => lock_holder # p)
    /\ \A p \in Procs : (pc[p] \in {"lock", "lock2"}) ~> (lock_holder = p)
    /\ \A p \in Procs : (pc[p] # "idle") ~> (pc[p] = "idle")

\* C31: when a transform handler pushes its result, the current entry of
\* the store is still the entry whose snapshot it read in its first
\* critical section; so every entry that is not an Import holds a snapshot
\* computed from the snapshot of the entry right before it.
C31_PushOntoReadEntry ==
    /\ [][ \A p \in Procs :
              (cmd[p] = "drop_nulls" /\ pc[p] = "held2" /\ pc'[p] = "idle") =>
                  LET df == get_current(history, current_index)
                  IN  IsSome(df) /\ Unwrap(df).serial = local[p].parent
         ]_vars
    /\ [](\A i \in 1..Len(history) :
             history[i].operation # "Import" =>
                 /\ i >= 2
                 /\ history[i].dataframe.parent = history[i - 1].dataframe.serial)

\* C34: a transform holds the lock in two separate critical sections and
\* never during the engine call: a computing task is not the holder, the end
\* of the computation (result, engine error or panic of the blocking task)
\* leaves the lock, the poison flag and the store alone, and a failed
\* computation ends the command with an error.
C34_ComputeOutsideLock ==
    /\ [](\A p \in Procs : pc[p] = "compute" => lock_holder # p)
    /\ [][ \A p \in Procs :
              /\ (cmd[p] = "drop_nulls" /\ pc[p] = "held" /\ pc'[p] # pc[p]) =>
                    (pc'[p] \in {"compute", "idle"} /\ lock_holder' = 0)
              /\ (pc[p] = "compute" /\ pc'[p] # pc[p]) =>
                    /\ poisoned' = poisoned
                    /\ lock_holder' = lock_holder
                    /\ history' = history
                    /\ current_index' = current_index
                    /\ \/ pc'[p] = "lock2"
                       \/ pc'[p] = "idle" /\ ret'[p] \in {ErrEngine, ErrJoin}
              /\ (pc[p] = "lock2" /\ pc'[p] # pc[p]) =>
                    \/ pc'[p] = "held2" /\ lock_holder = 0 /\ lock_holder' = p
                    \/ pc'[p] = "idle" /\ ret'[p] = ErrLock
         ]_vars

\* C34 witness: another task holds the lock while the engine call of a
\* transform is in progress
C34_Witness ==
    \E p \in Procs : \E q \in Procs :
        /\ p # q
        /\ pc[p] = "compute" /\ cmd[p] = "drop_nulls"
        /\ lock_holder = q /\ pc[q] = "held"

\* C36: a get_history followed by a get_current_index gives the frontend a
\* consistent pair: the index is None exactly when the list is empty, and
\* otherwise it is a valid index into the list and is the cursor the store
\* had when the list was read.
C36_ConsistentPair ==
    call.op = "get_history; get_current_index" =>
        /\ call.val = None <=> call.list = <<>>
        /\ IsSome(call.val) =>
              /\ Unwrap(call.val) < Len(call.list)
              /\ call.val = pre.current_index

\* C37: the critical section of a successful import leaves, whatever the
\* store held, one entry: an Import entry with the imported frame whose id
\* is the id of its DatasetInfo, with current_index = Some(0); can_undo()
\* and can_redo() are false, and undo, redo and jump_to reach no entry of
\* the dataset loaded before.
C37_ImportReplaces ==
    [][ \A p \in Procs :
          /\ (cmd[p] = "import_csv" /\ pc[p] = "held" /\ pc'[p] # pc[p]) =>
                (pc'[p] = "cleared" /\ history' = <<>> /\ current_index' = None)
          /\ (cmd[p] = "import_csv" /\ pc[p] = "cleared" /\ pc'[p] # pc[p]) =>
                /\ pc'[p] = "idle" /\ ret'[p] = Ok
                /\ Len(history') = 1
                /\ history'[1].operation = "Import"
                /\ history'[1].dataframe = local[p]
                /\ history'[1].metadata.id = history'[1].id
                /\ current_index' = Some(0)
                /\ can_undo(current_index') = Value(Ok, FALSE)
                /\ can_redo(history', current_index', overflow_checks) = Value(Ok, FALSE)
                /\ undo(history', current_index').ret = ErrAtEarliest
                /\ redo(history', current_index', overflow_checks).ret = ErrAtLatest
                /\ \A id \in 1..MaxPushes :
                      jump_to(history', current_index', id).ret = Ok => id = history'[1].id
      ]_vars

\* C37 witness: a second import replaced the history of the first dataset
C37_Witness ==
    \E p \in Procs :
        /\ pc[p] = "idle" /\ cmd[p] = "import_csv" /\ ret[p] = Ok
        /\ Len(history) = 1
        /\ history[1].operation = "Import"
        /\ history[1].dataframe.serial >= 2
        /\ current_index = Some(0)

====
